---- MODULE Spec2Model ----
(***************************************************************************)
(* A model of the transformation core of the template compiler:            *)
(*   - the multi-pass transform engine (transformer/mod.rs),               *)
(*   - the entity collector pass (transformer/collect_entities.rs),        *)
(*   - the v-model directive converter (converter/v_model.rs).             *)
(*                                                                         *)
(* The engine is a recursive visitor.  It is modelled as a machine with an *)
(* explicit call stack: one frame per active transform_<shape> call, and   *)
(* one step per hook invocation or per call of a transform_<shape> method. *)
(***************************************************************************)
EXTENDS Integers, Sequences, FiniteSets, TLC

VARIABLES
    root,     \* the IRRoot being transformed: [body |-> sequence of IR nodes]
    passes,   \* BaseTransformer.passes: the registered passes, in order
    stack,    \* the call stack of transform_<shape> frames, innermost last
    status,   \* "idle" | "running" | "done" | "panicked"
    runs,     \* number of transform invocations started on this transformer
    log,      \* hook invocations of the current transform call, in call order
    helper,   \* EntityCollector.helper: the collected runtime helpers
    directive,  \* the Directive handed to the v-model converter
    element,  \* the Element that owns the directive
    ret,      \* what the converter returned; type "None" before the call
    errors    \* the diagnostics reported to the ErrorHandler, in order

engine == <<root, passes, stack, status, runs, log, helper>>
conv == <<directive, element, ret, errors>>
vars == <<root, passes, stack, status, runs, log, helper, directive, element, ret, errors>>

(***************************************************************************)
(* IR data model                                                           *)
(***************************************************************************)

\* Option::None of an optional expression slot.
NoExpr == [kind |-> "None", helper |-> "none"]
\* JsExpr shapes: only Call and Symbol carry a runtime helper.
Simple == [kind |-> "Simple", helper |-> "none"]
Call(h) == [kind |-> "Call", helper |-> h]
Symbol(h) == [kind |-> "Symbol", helper |-> h]

TextCall == [type |-> "TextCall"]
CommentCall == [type |-> "CommentCall"]
AlterableSlot == [type |-> "AlterableSlot"]
IfBranch(c, n) == [condition |-> c, child |-> n]
IfNode(bs) == [type |-> "If", branches |-> bs]
\* The loop-variable bindings value, key and index are expressions too.
ForNode(src, val, key, n) ==
    [type |-> "For", source |-> src, value |-> val, key |-> key, index |-> NoExpr,
     child |-> n]
RuntimeDir(n, e, a, m) == [name |-> n, expr |-> e, arg |-> a, mods |-> m]
VNodeCall(t, p, cs, ds, blk, comp) ==
    [type |-> "VNodeCall", tag |-> t, props |-> p, children |-> cs,
     directives |-> ds, is_block |-> blk, is_component |-> comp]
RenderSlotCall(n, p, fs) ==
    [type |-> "RenderSlotCall", slot_name |-> n, slot_props |-> p, fallbacks |-> fs]
StableSlot(n, b) == [name |-> n, body |-> b]
VSlotUse(ss, as) == [type |-> "VSlotUse", stable_slots |-> ss, alterable_slots |-> as]
IRRoot(b) == [body |-> b]

(***************************************************************************)
(* Positions.  A position is a path from the root: a sequence of steps     *)
(* <<field, 0>> (a record field) or <<"item", k>> (k-th element of a       *)
(* sequence).  The position of a node, a child list or an expression slot  *)
(* is a prefix of the positions of everything below it.                    *)
(***************************************************************************)
Get(x, s) == IF s[1] = "item" THEN x[s[2]] ELSE x[s[1]]

RECURSIVE At(_, _)
At(x, p) == IF p = <<>> THEN x ELSE At(Get(x, Head(p)), Tail(p))

Field(p, f) == Append(p, <<f, 0>>)
Item(p, k) == Append(p, <<"item", k>>)

IsPrefix(p, q) == Len(p) <= Len(q) /\ \A k \in 1..Len(p) : q[k] = p[k]
Below(q, p) == Len(p) < Len(q) /\ IsPrefix(p, q)

(***************************************************************************)
(* Entity collector (collect_entities.rs).  Every hook maps the helper set *)
(* before the call to the helper set after it.                             *)
(***************************************************************************)

\* HelperCollector::collect: insert into a set of helper ids.
collect(h, id) == h \cup {id}

\* util::get_vnode_call_helper: the creation helper of a vnode call.
get_vnode_call_helper(v) ==
    IF v.is_block
    THEN (IF v.is_component THEN "CreateBlock" ELSE "CreateElementBlock")
    ELSE (IF v.is_component THEN "CreateVNode" ELSE "CreateElementVNode")

\* Declared by the collector but not a hook of CoreTransformPass: the engine
\* has no call site for it.
exit_root(h, r) ==
    IF Len(r.body) > 1 THEN collect(h, "Fragment") ELSE h

\* Mutant of exit_js_expr: only the Call arm of the match.
exit_js_expr_call_only(h, e) ==
    IF e.kind \in {"Call"} THEN collect(h, e.helper) ELSE h

exit_js_expr(h, e) ==
    IF e.kind \in {"Call", "Symbol"} THEN collect(h, e.helper) ELSE h

\* Mutant of exit_if: `any` in place of `all`.
exit_if_any(h, i) ==
    IF \E b \in 1..Len(i.branches) : i.branches[b].condition # NoExpr
    THEN collect(h, "CreateComment")
    ELSE h

exit_if(h, i) ==
    IF \A b \in 1..Len(i.branches) : i.branches[b].condition # NoExpr
    THEN collect(h, "CreateComment")
    ELSE h

\* Mutant of exit_for: the Fragment helper is left out.
exit_for_no_fragment(h, f) ==
    collect(collect(collect(h, "OpenBlock"), "CreateElementBlock"), "RenderList")

exit_for(h, f) ==
    collect(collect(collect(collect(h, "OpenBlock"), "CreateElementBlock"),
                    "RenderList"), "Fragment")

\* Mutant of exit_vnode: OpenBlock is collected whatever the is_block flag.
exit_vnode_always_block(h, v) ==
    LET h1 == IF Len(v.directives) # 0 THEN collect(h, "WithDirectives") ELSE h
        h2 == collect(h1, "OpenBlock")
    IN  collect(h2, get_vnode_call_helper(v))

exit_vnode(h, v) ==
    LET h1 == IF Len(v.directives) # 0 THEN collect(h, "WithDirectives") ELSE h
        h2 == IF v.is_block THEN collect(h1, "OpenBlock") ELSE h1
    IN  collect(h2, get_vnode_call_helper(v))

\* Mutant of exit_slot_outlet: the helper set is assigned, not added to.
exit_slot_outlet_assign(h, r) == {"RenderSlot"}

exit_slot_outlet(h, r) == collect(h, "RenderSlot")

\* Mutant of exit_v_slot: the stable slots are tested, not the alterable ones.
exit_v_slot_stable(h, s) ==
    LET h1 == IF Len(s.stable_slots) # 0 THEN collect(h, "CreateSlots") ELSE h
    IN  collect(h1, "WithCtx")

exit_v_slot(h, s) ==
    LET h1 == IF Len(s.alterable_slots) # 0 THEN collect(h, "CreateSlots") ELSE h
    IN  collect(h1, "WithCtx")

exit_comment(h, c) == collect(h, "CreateComment")

\* The hook table of the EntityCollector: the hooks it overrides, and the
\* no-op defaults of CoreTransformPass for the rest.
EntityCollector(h, dir, shape, x) ==
    IF dir = "enter" THEN h
    ELSE CASE shape = "js_expr"     -> exit_js_expr(h, x)
           [] shape = "if"          -> exit_if(h, x)
           [] shape = "for"         -> exit_for(h, x)
           [] shape = "vnode"       -> exit_vnode(h, x)
           [] shape = "slot_outlet" -> exit_slot_outlet(h, x)
           [] shape = "v_slot"      -> exit_v_slot(h, x)
           [] shape = "comment"     -> exit_comment(h, x)
           [] OTHER                 -> h

\* A pass that overrides enter_children and mutates the list it is handed:
\* it removes the comments and replaces a stray AlterableSlot by a text.
enter_children(cs) ==
    LET kept == SelectSeq(cs, LAMBDA x : x.type # "CommentCall")
    IN  [k \in 1..Len(kept) |->
            IF kept[k].type = "AlterableSlot" THEN TextCall ELSE kept[k]]

\* The hook table of that pass: what a hook leaves in place of x.
Rewriter(dir, shape, x) ==
    IF dir = "enter" /\ shape = "children" THEN enter_children(x) ELSE x

(***************************************************************************)
(* Transform engine (transformer/mod.rs)                                   *)
(***************************************************************************)

\* CoreTransformer::enter: the k-th hook call goes to pass k.
enter(k) == k

\* Mutant of exit: every exit hook call goes to the first pass.
exit_first(k) == 1

\* Mutant of exit: the passes are walked forward, without .rev().
exit_forward(k) == k

\* CoreTransformer::exit: the k-th hook call goes to pass n+1-k (.rev()).
exit(k) == Len(passes) + 1 - k

\* Mutant of transform_ir: an AlterableSlot is handled like a text.
transform_ir_lenient(ir) ==
    CASE ir.type = "TextCall"       -> "transform_text"
      [] ir.type = "If"             -> "transform_if"
      [] ir.type = "For"            -> "transform_for"
      [] ir.type = "VNodeCall"      -> "transform_vnode"
      [] ir.type = "RenderSlotCall" -> "transform_slot_outlet"
      [] ir.type = "CommentCall"    -> "transform_comment"
      [] ir.type = "VSlotUse"       -> "transform_v_slot"
      [] ir.type = "AlterableSlot"  -> "transform_text"

\* transform_ir: the method a node is dispatched to; "panic" for AlterableSlot.
transform_ir(ir) ==
    CASE ir.type = "TextCall"       -> "transform_text"
      [] ir.type = "If"             -> "transform_if"
      [] ir.type = "For"            -> "transform_for"
      [] ir.type = "VNodeCall"      -> "transform_vnode"
      [] ir.type = "RenderSlotCall" -> "transform_slot_outlet"
      [] ir.type = "CommentCall"    -> "transform_comment"
      [] ir.type = "VSlotUse"       -> "transform_v_slot"
      [] ir.type = "AlterableSlot"  -> "panic"

\* One call made from the body of a transform_<shape> method.
CallIr(p) == [call |-> "transform_ir", path |-> p]
CallExpr(p) == [call |-> "transform_js_expr", path |-> p]
CallChildren(p) == [call |-> "transform_children", path |-> p]
OptExpr(x, p, f) == IF x[f] # NoExpr THEN <<CallExpr(Field(p, f))>> ELSE <<>>

\* The calls each method makes between its enter hooks and its exit hooks,
\* in program order, for the node (or list) x at position p.
\* Mutant of children_calls: the children are visited last to first.
children_calls_rev(cs, p) == [k \in 1..Len(cs) |-> CallIr(Item(p, Len(cs) + 1 - k))]

children_calls(cs, p) == [k \in 1..Len(cs) |-> CallIr(Item(p, k))]

RECURSIVE if_branches(_, _, _)
if_branches(i, p, b) ==
    IF b > Len(i.branches) THEN <<>>
    ELSE LET bp == Item(Field(p, "branches"), b)
         IN  OptExpr(i.branches[b], bp, "condition")
             \o <<CallIr(Field(bp, "child"))>>
             \o if_branches(i, p, b + 1)
if_calls(i, p) == if_branches(i, p, 1)

\* Mutant of for_calls: the value binding is visited as an expression.
for_calls_with_value(f, p) ==
    <<CallExpr(Field(p, "source")), CallExpr(Field(p, "value")), CallIr(Field(p, "child"))>>

for_calls(f, p) == <<CallExpr(Field(p, "source")), CallIr(Field(p, "child"))>>

transform_runtime_dir(dir, p) ==
    <<CallExpr(Field(p, "name"))>> \o OptExpr(dir, p, "expr")
        \o OptExpr(dir, p, "arg") \o OptExpr(dir, p, "mods")

RECURSIVE vnode_directives(_, _, _)
vnode_directives(v, p, d) ==
    IF d > Len(v.directives) THEN <<>>
    ELSE transform_runtime_dir(v.directives[d], Item(Field(p, "directives"), d))
         \o vnode_directives(v, p, d + 1)
\* Mutant of vnode_calls: the directives are visited before the children.
vnode_calls_directives_first(v, p) ==
    <<CallExpr(Field(p, "tag"))>> \o OptExpr(v, p, "props")
        \o vnode_directives(v, p, 1) \o <<CallChildren(Field(p, "children"))>>

vnode_calls(v, p) ==
    <<CallExpr(Field(p, "tag"))>> \o OptExpr(v, p, "props")
        \o <<CallChildren(Field(p, "children"))>> \o vnode_directives(v, p, 1)

slot_outlet_calls(r, p) ==
    <<CallExpr(Field(p, "slot_name"))>> \o OptExpr(r, p, "slot_props")
        \o <<CallChildren(Field(p, "fallbacks"))>>

RECURSIVE v_slot_stable(_, _, _)
v_slot_stable(s, p, k) ==
    IF k > Len(s.stable_slots) THEN <<>>
    ELSE LET sp == Item(Field(p, "stable_slots"), k)
         IN  <<CallExpr(Field(sp, "name")), CallChildren(Field(sp, "body"))>>
             \o v_slot_stable(s, p, k + 1)
v_slot_calls(s, p) ==
    v_slot_stable(s, p, 1)
        \o [k \in 1..Len(s.alterable_slots) |->
                CallIr(Item(Field(p, "alterable_slots"), k))]

\* The calls of the method that runs the hooks of the given shape; the
\* methods for texts, expressions and comments make none.
Calls(shape, x, p) ==
    CASE shape = "children"    -> children_calls(x, p)
      [] shape = "if"          -> if_calls(x, p)
      [] shape = "for"         -> for_calls(x, p)
      [] shape = "vnode"       -> vnode_calls(x, p)
      [] shape = "slot_outlet" -> slot_outlet_calls(x, p)
      [] shape = "v_slot"      -> v_slot_calls(x, p)
      [] OTHER                 -> <<>>

\* Call frames.  pc is "enter" (i-th enter hook next), "body" (i-th call of
\* the body next) or "exit" (i-th exit hook next).
Frame(fn, p) == [fn |-> fn, path |-> p, pc |-> "enter", i |-> 1]
Top == stack[Len(stack)]
Here == At(root, Top.path)
Pop(st) == SubSeq(st, 1, Len(st) - 1)
SetTop(st, f) == [st EXCEPT ![Len(st)] = f]

\* The x with what lies at position p replaced by v.
RECURSIVE Put(_, _, _)
Put(x, p, v) ==
    IF p = <<>> THEN v
    ELSE LET s == Head(p)
         IN  IF s[1] = "item"
             THEN [x EXCEPT ![s[2]] = Put(x[s[2]], Tail(p), v)]
             ELSE [x EXCEPT ![s[1]] = Put(x[s[1]], Tail(p), v)]

\* A logged hook call: the pass, the hook, the position of its argument, and
\* for a child list the shapes of the elements the hook was handed.
Seen(shape, x) == IF shape = "children" THEN [k \in 1..Len(x) |-> x[k].type] ELSE <<>>
Event(p, dir, shape, path, seen) ==
    [pass |-> p, dir |-> dir, shape |-> shape, path |-> path, seen |-> seen]

\* One hook call f(pass): the pass's hook runs on the node at the top frame,
\* through a mutable reference.
\* Mutant of HookCall: the hook is handed a copy, its mutation is lost.
HookCall_copy(p, dir, shape) ==
    /\ log' = Append(log, Event(p, dir, shape, Top.path, Seen(shape, Here)))
    /\ helper' = IF passes[p] = "EntityCollector"
                 THEN EntityCollector(helper, dir, shape, Here)
                 ELSE helper
    /\ root' = root
    /\ UNCHANGED <<passes, runs>>

HookCall(p, dir, shape) ==
    /\ log' = Append(log, Event(p, dir, shape, Top.path, Seen(shape, Here)))
    /\ helper' = IF passes[p] = "EntityCollector"
                 THEN EntityCollector(helper, dir, shape, Here)
                 ELSE helper
    /\ root' = IF passes[p] = "Rewriter"
               THEN Put(root, Top.path, Rewriter(dir, shape, Here))
               ELSE root
    /\ UNCHANGED <<passes, runs>>

\* self.enter(|p| p.enter_<shape>(x)), one pass per step.  The body that
\* follows the last enter hook reads the node as the hooks left it.
EnterStep(shape) ==
    /\ Top.pc = "enter"
    /\ HookCall(enter(Top.i), "enter", shape)
    /\ stack' = SetTop(stack,
                 IF Top.i < Len(passes) THEN [Top EXCEPT !.i = Top.i + 1]
                 ELSE IF Len(Calls(shape, At(root', Top.path), Top.path)) > 0
                 THEN [Top EXCEPT !.pc = "body", !.i = 1]
                 ELSE [Top EXCEPT !.pc = "exit", !.i = 1])
    /\ UNCHANGED status

\* The next call of the method's body: a new frame, or the panic of transform_ir.
BodyStep(shape) ==
    /\ Top.pc = "body"
    /\ LET c == Calls(shape, Here, Top.path)[Top.i]
           fn == IF c.call = "transform_ir" THEN transform_ir(At(root, c.path))
                 ELSE c.call
           resume == IF Top.i < Len(Calls(shape, Here, Top.path)) THEN [Top EXCEPT !.i = Top.i + 1]
                     ELSE [Top EXCEPT !.pc = "exit", !.i = 1]
       IN  IF fn = "panic"
           THEN status' = "panicked" /\ UNCHANGED stack
           ELSE status' = status /\ stack' = Append(SetTop(stack, resume), Frame(fn, c.path))
    /\ UNCHANGED <<root, passes, runs, log, helper>>

\* self.exit(|p| p.exit_<shape>(x)), one pass per step; the method returns
\* after the last one.
ExitStep(shape) ==
    /\ Top.pc = "exit"
    /\ HookCall(exit(Top.i), "exit", shape)
    /\ IF Top.i < Len(passes)
       THEN stack' = SetTop(stack, [Top EXCEPT !.i = Top.i + 1]) /\ UNCHANGED status
       ELSE stack' = Pop(stack)
            /\ status' = IF Len(stack) = 1 THEN "done" ELSE status

Method(fn, shape) ==
    /\ status = "running"
    /\ Top.fn = fn
    /\ (EnterStep(shape) \/ BodyStep(shape) \/ ExitStep(shape))
    /\ UNCHANGED conv

Running(fn) == status = "running" /\ Top.fn = fn

transform_children ==
    Running("transform_children")
        /\ Method("transform_children", "children")
transform_text ==
    Running("transform_text") /\ Method("transform_text", "text")
transform_if ==
    Running("transform_if") /\ Method("transform_if", "if")
transform_for ==
    Running("transform_for") /\ Method("transform_for", "for")
transform_vnode ==
    Running("transform_vnode")
        /\ Method("transform_vnode", "vnode")
transform_slot_outlet ==
    Running("transform_slot_outlet")
        /\ Method("transform_slot_outlet", "slot_outlet")
transform_v_slot ==
    Running("transform_v_slot")
        /\ Method("transform_v_slot", "v_slot")
transform_js_expr ==
    Running("transform_js_expr") /\ Method("transform_js_expr", "js_expr")
transform_comment ==
    Running("transform_comment") /\ Method("transform_comment", "comment")

\* Transformer::transform -> transform_root -> transform_children(root.body).
transform_root == Frame("transform_children", Field(<<>>, "body"))

transform ==
    /\ status = "idle"
    /\ runs' = runs + 1
    /\ status' = "running"
    /\ stack' = <<transform_root>>
    /\ log' = <<>>
    /\ UNCHANGED <<root, passes, helper>>
    /\ UNCHANGED conv

\* A further transform call on the same transformer and the same tree.
MaxRuns == 2

transform_again ==
    /\ status = "done"
    /\ runs < MaxRuns
    /\ runs' = runs + 1
    /\ status' = "running"
    /\ stack' = <<transform_root>>
    /\ log' = <<>>
    /\ UNCHANGED <<root, passes, helper>>
    /\ UNCHANGED conv

(***************************************************************************)
(* Inputs: every IR tree of at most MaxNodes nodes over the eight node     *)
(* shapes, with its expression slots and flags filled in one of Styles.    *)
(***************************************************************************)
MaxNodes == 3

Styles == {"plain", "full", "helpers"}

\* A mandatory expression slot, an optional one, the directives and flags.
ReqExpr(st) == IF st = "helpers" THEN Symbol("Fragment") ELSE Simple
OptSlot(st) ==
    CASE st = "plain" -> NoExpr [] st = "full" -> Simple [] OTHER -> Call("CreateComment")
Directives(st) ==
    CASE st = "plain" -> <<>>
      [] st = "full" -> <<RuntimeDir(Simple, Simple, Simple, Simple)>>
      [] OTHER -> <<RuntimeDir(Simple, NoExpr, Call("WithDirectives"), NoExpr),
                    RuntimeDir(Symbol("RenderList"), NoExpr, NoExpr, NoExpr)>>
IsBlock(st) == st # "plain"
IsComponent(st) == st = "full"

\* Branches over the children cs: every branch conditional, or the last an else.
Branches(cs, st, else) ==
    [b \in 1..Len(cs) |->
        IfBranch(IF else /\ b = Len(cs) THEN NoExpr
                 ELSE IF st = "helpers" THEN Call("CreateComment") ELSE Simple,
                 cs[b])]

RECURSIVE Nodes(_, _), Lists(_, _)
\* Sequences of nodes with n nodes in all.
Lists(n, st) ==
    IF n = 0 THEN {<<>>}
    ELSE UNION {{<<x>> \o r : x \in Nodes(k, st), r \in Lists(n - k, st)} : k \in 1..n}
\* Nodes with n nodes in all (the node itself included).  An If has a branch,
\* and an else only after another branch; a VSlotUse has a slot and a slot
\* outlet a fallback; a vnode may have no child.
Nodes(n, st) ==
    LET sub == Lists(n - 1, st)
    IN  (IF n = 1 THEN {TextCall, CommentCall, AlterableSlot}
         ELSE {IfNode(Branches(cs, st, FALSE)) : cs \in sub}
              \cup {IfNode(Branches(cs, st, TRUE)) : cs \in {l \in sub : Len(l) > 1}}
              \cup {ForNode(ReqExpr(st), ReqExpr(st), OptSlot(st), c) : c \in Nodes(n - 1, st)}
              \cup {VSlotUse(<<StableSlot(ReqExpr(st), cs)>>, <<>>) : cs \in sub}
              \cup {VSlotUse(<<>>, as) : as \in sub})
        \cup {VNodeCall(ReqExpr(st), OptSlot(st), cs, Directives(st),
                        IsBlock(st), IsComponent(st)) : cs \in sub}
        \cup {RenderSlotCall(ReqExpr(st), OptSlot(st), cs) : cs \in sub \ {<<>>}}

\* Plain trees of up to max nodes; trees of the other styles one node smaller.
Budget(max, st) == IF st = "plain" THEN max ELSE max - 1
Roots(max) ==
    UNION {UNION {{IRRoot(b) : b \in Lists(n, st)} : n \in 0..Budget(max, st)} : st \in Styles}

\* The passes of a transformer: a pass that overrides no hook, and the collector.
PassConfigs == {<<"Default", "EntityCollector">>}

\* Trees of every style, of up to max nodes.
StyledRoots(max) ==
    UNION {UNION {{IRRoot(b) : b \in Lists(n, st)} : n \in 0..max} : st \in Styles}

(***************************************************************************)
(* v-model converter (converter/v_model.rs).  Strings are sequences of     *)
(* words, so that appending a suffix is visible in the value.              *)
(***************************************************************************)
StrLit(s) == [js |-> "StrLit", val |-> s]
SimpleExpr(s) == [js |-> "Simple", val |-> s, level |-> "NotStatic"]
Src(s) == [js |-> "Src", val |-> s]
Compound(parts) == [js |-> "Compound", parts |-> parts]
Props(ps) == [js |-> "Props", props |-> ps]

\* Js::str_lit and Js::simple.
str_lit(s) == StrLit(s)
simple(s) == SimpleExpr(s)
\* VStr::suffix_mod: the string with "Modifiers" appended.
suffix_mod(s) == Append(s, "Modifiers")

NoAttr == [present |-> FALSE, content |-> <<>>, syntax |-> "blank", location |-> "none"]
Attr(c, syn) == [present |-> TRUE, content |-> c, syntax |-> syn, location |-> "expression"]
NoArg == [kind |-> "None", val |-> <<>>]
Static(s) == [kind |-> "Static", val |-> s]
Dynamic(d) == [kind |-> "Dynamic", val |-> d]
Directive(e, ms, a) ==
    [expression |-> e, modifiers |-> ms, argument |-> a, head_loc |-> "head"]
Element(t) == [tag_type |-> t]

Dropped == [type |-> "Dropped"]
Converted(v, r) == [type |-> "Converted", value |-> v, runtime |-> r]
Err(b) == [ok |-> FALSE, val |-> b]
Error(kind, loc) == [kind |-> kind, location |-> loc]

\* v_bind::get_non_empty_expr: the expression unless absent or blank, and
\* the location to report at.
get_non_empty_expr(expression, head_loc) ==
    IF expression.present /\ expression.syntax # "blank"
    THEN [val |-> expression, loc |-> head_loc]
    ELSE [val |-> NoAttr, loc |-> head_loc]

\* util::is_simple_identifier and rslint::is_member_expression.
is_simple_identifier(val) == val.syntax = "identifier"
rslint_is_member_expression(val) == val.syntax = "member"

is_member_expression(val) ==
    is_simple_identifier(val) \/ rslint_is_member_expression(val)

\* Mutant of component_mods_prop: the static key is not suffixed.
component_mods_prop_no_suffix(d, elem) ==
    IF d.modifiers = <<>> \/ elem.tag_type # "Component" THEN <<>>
    ELSE LET modifiers_key ==
                 CASE d.argument.kind = "Static" -> StrLit(d.argument.val)
                   [] d.argument.kind = "Dynamic" ->
                        Compound(<<simple(d.argument.val), Src(<<" + '", "Modifiers", "'">>)>>)
                   [] OTHER -> str_lit(<<"model", "Modifiers">>)
             mod_value ==
                 [k \in 1..Len(d.modifiers) |->
                     <<str_lit(<<d.modifiers[k]>>), Src(<<"true">>)>>]
         IN  <<  <<modifiers_key, Props(mod_value)>>  >>

\* Mutant of component_mods_prop: the element type is not looked at.
component_mods_prop_any_element(d, elem) ==
    IF d.modifiers = <<>> THEN <<>>
    ELSE LET modifiers_key ==
                 CASE d.argument.kind = "Static" -> StrLit(suffix_mod(d.argument.val))
                   [] d.argument.kind = "Dynamic" ->
                        Compound(<<simple(d.argument.val), Src(<<" + '", "Modifiers", "'">>)>>)
                   [] OTHER -> str_lit(<<"model", "Modifiers">>)
             mod_value ==
                 [k \in 1..Len(d.modifiers) |->
                     <<str_lit(<<d.modifiers[k]>>), Src(<<"true">>)>>]
         IN  <<  <<modifiers_key, Props(mod_value)>>  >>

\* The Option<Prop> is a sequence of no or one property.
component_mods_prop(d, elem) ==
    IF d.modifiers = <<>> \/ elem.tag_type # "Component" THEN <<>>
    ELSE LET modifiers_key ==
                 CASE d.argument.kind = "Static" -> StrLit(suffix_mod(d.argument.val))
                   [] d.argument.kind = "Dynamic" ->
                        Compound(<<simple(d.argument.val), Src(<<" + '", "Modifiers", "'">>)>>)
                   [] OTHER -> str_lit(<<"model", "Modifiers">>)
             mod_value ==
                 [k \in 1..Len(d.modifiers) |->
                     <<str_lit(<<d.modifiers[k]>>), Src(<<"true">>)>>]
         IN  <<  <<modifiers_key, Props(mod_value)>>  >>

\* Mutant of v_model_props: a dynamic argument is made a string literal key.
v_model_props_dynamic_lit(d, elem, val) ==
    LET prop_name ==
            CASE d.argument.kind = "Static" -> str_lit(d.argument.val)
              [] d.argument.kind = "Dynamic" -> str_lit(d.argument.val)
              [] OTHER -> str_lit(<<"model", "Value">>)
    IN  << <<prop_name, SimpleExpr(val.content)>> >> \o component_mods_prop(d, elem)

\* The properties of a converted v-model.
v_model_props(d, elem, val) ==
    LET prop_name ==
            CASE d.argument.kind = "Static" -> str_lit(d.argument.val)
              [] d.argument.kind = "Dynamic" -> simple(d.argument.val)
              [] OTHER -> str_lit(<<"model", "Value">>)
    IN  << <<prop_name, SimpleExpr(val.content)>> >> \o component_mods_prop(d, elem)

\* Mutant of convert_v_model: no return after the malformed-expression error.
convert_v_model_no_return(d, elem) ==
    LET e == get_non_empty_expr(d.expression, d.head_loc)
    IN  IF ~e.val.present
        THEN [result |-> Dropped, reported |-> <<Error("VModelNoExpression", e.loc)>>]
        ELSE [result |-> Converted(Props(v_model_props(d, elem, e.val)), Err(FALSE)),
              reported |-> IF ~is_member_expression(e.val)
                           THEN <<Error("VModelMalformedExpression", e.loc)>>
                           ELSE <<>>]

\* convert_v_model: the result, and the errors handed to eh.on_error.
convert_v_model(d, elem) ==
    LET e == get_non_empty_expr(d.expression, d.head_loc)
    IN  IF ~e.val.present
        THEN [result |-> Dropped, reported |-> <<Error("VModelNoExpression", e.loc)>>]
        ELSE IF ~is_member_expression(e.val)
        THEN [result |-> Dropped,
              reported |-> <<Error("VModelMalformedExpression", e.loc)>>]
        ELSE [result |-> Converted(Props(v_model_props(d, elem, e.val)), Err(FALSE)),
              reported |-> <<>>]

\* The converter registered for "model", called once on the directive.
V_MODEL ==
    /\ ret.type = "None"
    /\ LET r == convert_v_model(directive, element)
       IN  /\ ret' = r.result
           /\ errors' = errors \o r.reported
    /\ UNCHANGED <<directive, element>>
    /\ UNCHANGED engine

\* Converter inputs.
MaxMods == 2
ModNames == {"trim", "number", "lazy"}
Modifiers ==
    {ms \in UNION {[1..n -> ModNames] : n \in 0..MaxMods} :
        \A i, j \in 1..Len(ms) : i # j => ms[i] # ms[j]}
Expressions ==
    {NoAttr, Attr(<<>>, "blank"), Attr(<<" ">>, "blank"),
     Attr(<<"foo">>, "identifier"), Attr(<<"a", ".", "b">>, "member"),
     Attr(<<"a", "[", "b", "]">>, "member"), Attr(<<"42">>, "literal"),
     Attr(<<"f", "(", ")">>, "call")}
Arguments == {NoArg, Static(<<"foo">>), Static(<<"model", "Value">>), Dynamic(<<"d">>)}
TagTypes == {"Plain", "Component", "Template", "SlotOutlet"}

(***************************************************************************)
(* Specifications                                                          *)
(***************************************************************************)
EngineIdle ==
    /\ stack = <<>>
    /\ status = "idle"
    /\ runs = 0
    /\ log = <<>>
    /\ helper = {}

ConverterIdle ==
    /\ directive = Directive(NoAttr, <<>>, NoArg)
    /\ element = Element("Plain")
    /\ ret = [type |-> "None"]
    /\ errors = <<>>

\* One transform call on a freshly built transformer.
Init ==
    /\ root \in Roots(MaxNodes)
    /\ passes \in PassConfigs
    /\ EngineIdle
    /\ ConverterIdle

Next ==
    \/ transform
    \/ transform_children
    \/ transform_text
    \/ transform_if
    \/ transform_for
    \/ transform_vnode
    \/ transform_slot_outlet
    \/ transform_v_slot
    \/ transform_js_expr
    \/ transform_comment

Spec == Init /\ [][Next]_vars

\* Repeated transform calls on one transformer and one tree.
InitRerun ==
    /\ root \in StyledRoots(MaxNodes - 1)
    /\ passes \in PassConfigs
    /\ EngineIdle
    /\ ConverterIdle

NextRerun == Next \/ transform_again

SpecRerun == InitRerun /\ [][NextRerun]_vars

\* One call of the v-model converter.
InitVModel ==
    /\ directive \in {Directive(e, ms, a) : e \in Expressions, ms \in Modifiers, a \in Arguments}
    /\ element \in {Element(t) : t \in TagTypes}
    /\ ret = [type |-> "None"]
    /\ errors = <<>>
    /\ root = IRRoot(<<>>)
    /\ passes \in PassConfigs
    /\ EngineIdle

NextVModel == V_MODEL

SpecVModel == InitVModel /\ [][NextVModel]_vars

\* One transform call with a pass that mutates the child lists, registered
\* before another pass or after one.
PlainRoots(max) == UNION {{IRRoot(b) : b \in Lists(n, "plain")} : n \in 0..max}

InitMutate ==
    /\ \/ passes = <<"Rewriter", "EntityCollector">> /\ root \in PlainRoots(MaxNodes)
       \/ passes = <<"Default", "Rewriter">> /\ root \in PlainRoots(MaxNodes - 1)
    /\ EngineIdle
    /\ ConverterIdle

NextMutate == Next

SpecMutate == InitMutate /\ [][NextMutate]_vars

(***************************************************************************)
(* The tree as data: the positions of its nodes, child lists and           *)
(* expression slots, read off the IR data model (not off the traversal).   *)
(***************************************************************************)
ListAt(p) == [path |-> p, kind |-> "list"]
NodeAt(p) == [path |-> p, kind |-> "node"]
ExprAt(x, p, f) == IF x[f] # NoExpr THEN {[path |-> Field(p, f), kind |-> "expr"]} ELSE {}

RECURSIVE NodePositions(_, _)
ListPositions(xs, p) ==
    {ListAt(p)} \cup UNION {NodePositions(xs[k], Item(p, k)) : k \in 1..Len(xs)}
NodePositions(x, p) ==
    {NodeAt(p)} \cup
    CASE x.type = "If" ->
           UNION {LET bp == Item(Field(p, "branches"), b)
                  IN  ExprAt(x.branches[b], bp, "condition")
                      \cup NodePositions(x.branches[b].child, Field(bp, "child"))
                  : b \in 1..Len(x.branches)}
      [] x.type = "For" ->
           ExprAt(x, p, "source") \cup NodePositions(x.child, Field(p, "child"))
      [] x.type = "VNodeCall" ->
           ExprAt(x, p, "tag") \cup ExprAt(x, p, "props")
           \cup ListPositions(x.children, Field(p, "children"))
           \cup UNION {LET dp == Item(Field(p, "directives"), d)
                           dir == x.directives[d]
                       IN  ExprAt(dir, dp, "name") \cup ExprAt(dir, dp, "expr")
                           \cup ExprAt(dir, dp, "arg") \cup ExprAt(dir, dp, "mods")
                       : d \in 1..Len(x.directives)}
      [] x.type = "RenderSlotCall" ->
           ExprAt(x, p, "slot_name") \cup ExprAt(x, p, "slot_props")
           \cup ListPositions(x.fallbacks, Field(p, "fallbacks"))
      [] x.type = "VSlotUse" ->
           UNION {LET sp == Item(Field(p, "stable_slots"), k)
                  IN  ExprAt(x.stable_slots[k], sp, "name")
                      \cup ListPositions(x.stable_slots[k].body, Field(sp, "body"))
                  : k \in 1..Len(x.stable_slots)}
           \cup UNION {NodePositions(x.alterable_slots[k],
                                     Item(Field(p, "alterable_slots"), k))
                       : k \in 1..Len(x.alterable_slots)}
      [] OTHER -> {}

Positions == ListPositions(root.body, Field(<<>>, "body"))
TreeNodes == {At(root, q.path) : q \in {r \in Positions : r.kind = "node"}}
TreeExprs == {At(root, q.path) : q \in {r \in Positions : r.kind = "expr"}}
HasNode(t) == \E x \in TreeNodes : x.type = t
RefersTo(h) == \E e \in TreeExprs : e.kind \in {"Call", "Symbol"} /\ e.helper = h

\* The hook shape of a position.
ShapeOf(q) ==
    CASE q.kind = "list" -> "children"
      [] q.kind = "expr" -> "js_expr"
      [] OTHER ->
           LET t == At(root, q.path).type
           IN  CASE t = "TextCall" -> "text" [] t = "If" -> "if" [] t = "For" -> "for"
                 [] t = "VNodeCall" -> "vnode" [] t = "RenderSlotCall" -> "slot_outlet"
                 [] t = "CommentCall" -> "comment" [] t = "VSlotUse" -> "v_slot"
                 [] OTHER -> "none"

\* An AlterableSlot node is in place when it lies within the alterable_slots
\* of a VSlotUse.
InAlterableSlots(p) == \E k \in 1..Len(p) : p[k][1] = "alterable_slots"
AlterableInPlace ==
    \A q \in Positions :
        (q.kind = "node" /\ At(root, q.path).type = "AlterableSlot")
            => InAlterableSlots(q.path)

Collecting == \E k \in 1..Len(passes) : passes[k] = "EntityCollector"

(***************************************************************************)
(* The hook log                                                            *)
(***************************************************************************)
Last == log[Len(log)]
EventsAt(p) == SelectSeq(log, LAMBDA e : e.path = p)
Prefix(p, j) == SubSeq(p, 1, j)
\* The order of the hook calls on one position: enter by passes 1..n, then
\* exit by passes n..1.
Canon(k) ==
    IF k <= Len(passes) THEN [pass |-> k, dir |-> "enter"]
    ELSE [pass |-> 2 * Len(passes) + 1 - k, dir |-> "exit"]
IsOpen(p) == Len(EventsAt(p)) = Len(passes)
IsClosed(p) == Len(EventsAt(p)) = 2 * Len(passes)

\* What lies at a position, read off its last step: a child list, an
\* expression slot, a node, or none of these (a branch, a directive, a slot).
ListFields == {"body", "children", "fallbacks"}
ExprFields == {"condition", "source", "tag", "props", "name", "expr", "arg",
               "mods", "slot_name", "slot_props"}
PathKind(p) ==
    IF p = <<>> THEN "none"
    ELSE LET f == p[Len(p)][1]
         IN  CASE f \in ListFields -> "list"
               [] f \in ExprFields -> "expr"
               [] f = "child" -> "node"
               [] f = "item" /\ p[Len(p) - 1][1] \in ListFields \cup {"alterable_slots"}
                    -> "node"
               [] OTHER -> "none"

(***************************************************************************)
(* Claims                                                                  *)
(***************************************************************************)

\* C1: on every node, child list and expression slot the hooks are called
\* in the order enter by pass 1..n, then exit by pass n..1 (for two passes:
\* A.enter, B.enter, B.exit, A.exit), and every hook call on a position
\* below it falls after its last enter hook and before its first exit hook.
\* Stated of the latest hook call, in every state.
C1_HookOrder ==
    log # <<>> =>
        LET e == Last
            here == EventsAt(e.path)
        IN  /\ ShapeOf([path |-> e.path, kind |-> PathKind(e.path)]) = e.shape
            /\ Len(here) <= 2 * Len(passes)
            /\ \A k \in 1..Len(here) :
                   /\ here[k].pass = Canon(k).pass
                   /\ here[k].dir = Canon(k).dir
                   /\ here[k].shape = e.shape
            /\ \A j \in 1..(Len(e.path) - 1) :
                   PathKind(Prefix(e.path, j)) # "none" => IsOpen(Prefix(e.path, j))

\* A For node with two passes: its exit hooks ran B then A, after hook calls
\* on its descendants.
C1_Witness ==
    /\ status = "done"
    /\ Len(passes) = 2
    /\ \E k \in 2..Len(log) :
           /\ log[k].shape = "for" /\ log[k].dir = "exit" /\ log[k].pass = 1
           /\ log[k - 1].path = log[k].path /\ log[k - 1].pass = 2
           /\ \E j \in 1..k : Below(log[j].path, log[k].path)

\* C2: for a child list, every pass's enter_children (registration order)
\* precedes every hook call on an element, the elements are visited in
\* sequence order (child i is finished before any hook call on child i+1),
\* and every pass's exit_children (reverse order) follows the last child.
\* Stated of the latest hook call, in every state.
C2_ChildrenOrder ==
    log # <<>> =>
        LET e == Last
            p == e.path
            n == Len(passes)
            c == Len(EventsAt(p))
        IN  /\ \A j \in 1..(Len(p) - 1) :
                   LET l == Prefix(p, j)
                       i == p[j + 1][2]
                   IN  PathKind(l) = "list" =>
                           /\ IsOpen(l)
                           /\ \A k \in 1..(i - 1) : IsClosed(Item(l, k))
                           /\ \A m \in 1..Len(log) :
                                  Below(log[m].path, l) => log[m].path[j + 1][2] <= i
            /\ (e.shape = "children" /\ e.dir = "enter") =>
                   /\ e.pass = c
                   /\ \A m \in 1..Len(log) : ~Below(log[m].path, p)
            /\ (e.shape = "children" /\ e.dir = "exit") =>
                   /\ e.pass = 2 * n + 1 - c
                   /\ \A k \in 1..Len(At(root, p)) : IsClosed(Item(p, k))

\* A finished traversal of a vnode with two children.
C2_Witness ==
    /\ status = "done"
    /\ \E q \in Positions :
           /\ q.kind = "list" /\ Len(q.path) > 1
           /\ Len(At(root, q.path)) = 2
           /\ IsClosed(q.path)

\* C3: on a tree whose AlterableSlot nodes are all in place, one transform
\* call runs every pass's enter hook and exit hook exactly once on every
\* node, child list and expression slot, and then ends.
C3_ExactlyOnce ==
    AlterableInPlace =>
        /\ status # "panicked"
        /\ \A q \in Positions : Len(EventsAt(q.path)) <= 2 * Len(passes)
        /\ status = "done" =>
               /\ stack = <<>>
               /\ \A q \in Positions : \A k \in 1..Len(passes) :
                      \A d \in {"enter", "exit"} :
                          Cardinality({m \in 1..Len(log) :
                              /\ log[m].path = q.path
                              /\ log[m].pass = k
                              /\ log[m].dir = d}) = 1

\* C4: after a transform with the collector registered, Fragment is
\* collected when the root body has more than one node, and is absent when
\* the body has at most one node and the tree has no For node and no
\* expression referring to Fragment.
C4_Fragment ==
    (status = "done" /\ Collecting) =>
        /\ Len(root.body) > 1 => "Fragment" \in helper
        /\ (Len(root.body) <= 1 /\ ~HasNode("For") /\ ~RefersTo("Fragment"))
               => "Fragment" \notin helper

\* C5: a tree whose AlterableSlot nodes all lie within the alterable_slots
\* of a VSlotUse never reaches the panic of transform_ir.
C5_NoPanic == AlterableInPlace => status # "panicked"

\* C6: in a tree with no CommentCall node and no expression referring to
\* CreateComment, CreateComment is collected exactly when some If node has
\* a condition on every branch.
C6_CreateComment ==
    (status = "done" /\ Collecting /\ ~HasNode("CommentCall")
        /\ ~RefersTo("CreateComment")) =>
        ("CreateComment" \in helper <=>
            \E x \in TreeNodes :
                /\ x.type = "If"
                /\ \A b \in 1..Len(x.branches) : x.branches[b].condition # NoExpr)

\* A finished transform of an If with two conditional branches and no else.
C6_Witness ==
    /\ status = "done" /\ Collecting
    /\ ~HasNode("CommentCall") /\ ~RefersTo("CreateComment")
    /\ "CreateComment" \in helper
    /\ \E x \in TreeNodes :
           /\ x.type = "If" /\ Len(x.branches) = 2
           /\ \A b \in 1..Len(x.branches) : x.branches[b].condition # NoExpr

\* C7: after a completed transform of a tree with a For node anywhere in it,
\* OpenBlock, CreateElementBlock, RenderList and Fragment are all collected.
C7_ForHelpers ==
    (status = "done" /\ Collecting /\ HasNode("For")) =>
        {"OpenBlock", "CreateElementBlock", "RenderList", "Fragment"} \subseteq helper

\* A finished transform of a tree with a For node among the alterable slots.
C7_Witness ==
    /\ status = "done" /\ Collecting
    /\ \E q \in Positions :
           /\ q.kind = "node" /\ At(root, q.path).type = "For"
           /\ InAlterableSlots(q.path)

\* C8: no hook call of the collector removes a helper, and a further run
\* over the same tree leaves the helper set as the first run left it.
C8_Monotone ==
    [][/\ helper \subseteq helper'
       /\ runs >= 2 => helper' = helper]_vars

\* A second run has finished with helpers collected.
C8_Witness == runs = 2 /\ status = "done" /\ Collecting /\ helper # {}

\* The key and the value of the modifiers property, as the claims state them.
ModsValue ==
    Props([k \in 1..Len(directive.modifiers) |->
              <<StrLit(<<directive.modifiers[k]>>), Src(<<"true">>)>>])
ModsAppended == ret.type = "Converted" /\ Len(ret.value.props) = 2
TargetName == ret.value.props[1][1]
SuffixedKey ==
    IF directive.argument.kind = "Dynamic"
    THEN Compound(<<TargetName, Src(<<" + '", "Modifiers", "'">>)>>)
    ELSE StrLit(TargetName.val \o <<"Modifiers">>)

\* C9 as stated: the key of the modifiers property is the target property
\* name followed by "Modifiers" for a static, a dynamic and an absent
\* argument, and its value maps each modifier to true in declaration order.
C9_KeyIsTargetSuffixed ==
    ModsAppended =>
        /\ ret.value.props[2][1] = SuffixedKey
        /\ ret.value.props[2][2] = ModsValue

\* C9 amended: as stated for a static and a dynamic argument; for an absent
\* argument the key is the literal "modelModifiers".
C9_ModifiersKey ==
    ModsAppended =>
        /\ ret.value.props[2][1] =
               IF directive.argument.kind = "None" THEN StrLit(<<"model", "Modifiers">>)
               ELSE SuffixedKey
        /\ ret.value.props[2][2] = ModsValue

\* Two modifiers on a component, with no argument.
C9_Witness ==
    /\ ModsAppended
    /\ directive.argument.kind = "None"
    /\ Len(directive.modifiers) = 2

\* C10: a call reports at most one diagnostic and returns Dropped exactly
\* when it reported one: NoExpression for an absent or blank expression,
\* MalformedExpression at the head location for an expression that is
\* neither an identifier nor a member expression, none otherwise.
C10_Diagnostics ==
    ret.type # "None" =>
        LET e == directive.expression
            blank == ~e.present \/ e.syntax = "blank"
            target == e.syntax \in {"identifier", "member"}
        IN  /\ Len(errors) <= 1
            /\ ret.type \in {"Dropped", "Converted"}
            /\ ret.type = "Dropped" <=> Len(errors) = 1
            /\ blank => /\ ret.type = "Dropped"
                        /\ Len(errors) = 1
                        /\ errors[1].kind = "VModelNoExpression"
            /\ (~blank /\ ~target) =>
                   /\ ret.type = "Dropped"
                   /\ errors = <<Error("VModelMalformedExpression", directive.head_loc)>>
            /\ (~blank /\ target) => ret.type = "Converted" /\ errors = <<>>

\* The numeric literal 42 was dropped with its diagnostic.
C10_Witness ==
    /\ ret.type = "Dropped"
    /\ directive.expression.syntax = "literal"
    /\ Len(errors) = 1

\* Whether the directive's expression is an assignment target: an identifier
\* or a member expression.
IsTarget ==
    /\ directive.expression.present
    /\ directive.expression.syntax \in {"identifier", "member"}

\* C11: for a directive whose expression is an assignment target the call
\* returns Converted; the key of the first property is the static argument
\* as a string literal, the dynamic argument as a computed key, or the
\* literal "modelValue" when there is no argument; its value is the bound
\* expression; the runtime flag of every Converted is Err(false).
C11_FirstProp ==
    /\ (ret.type # "None" /\ IsTarget) =>
           /\ ret.type = "Converted"
           /\ Len(ret.value.props) >= 1
           /\ ret.value.props[1][1] =
                  CASE directive.argument.kind = "Static" -> StrLit(directive.argument.val)
                    [] directive.argument.kind = "Dynamic" ->
                         SimpleExpr(directive.argument.val)
                    [] OTHER -> StrLit(<<"model", "Value">>)
           /\ ret.value.props[1][2] = SimpleExpr(directive.expression.content)
    /\ ret.type = "Converted" => ret.runtime = Err(FALSE)

\* A member expression bound under a dynamic argument was converted.
C11_Witness ==
    /\ ret.type = "Converted"
    /\ directive.expression.syntax = "member"
    /\ directive.argument.kind = "Dynamic"

\* C12: a Converted payload has one or two properties, and has the second
\* one exactly when the directive has a modifier and the element is a
\* Component.
C12_ModsProp ==
    ret.type = "Converted" =>
        /\ Len(ret.value.props) \in {1, 2}
        /\ Len(ret.value.props) = 2 <=>
               (directive.modifiers # <<>> /\ element.tag_type = "Component")

\* Modifiers on a native element: converted with a single property.
C12_Witness ==
    /\ ret.type = "Converted"
    /\ directive.modifiers # <<>>
    /\ element.tag_type = "Plain"
    /\ Len(ret.value.props) = 1

\* The fields of the vnode v at position p that the traversal visits, each
\* with its rank in the order tag, props, children, then per directive
\* name, expr, arg, mods.
DirRank(f) == CASE f = "name" -> 1 [] f = "expr" -> 2 [] f = "arg" -> 3 [] OTHER -> 4
VNodeFields(v, p) ==
    {[path |-> Field(p, "tag"), rank |-> 1], [path |-> Field(p, "children"), rank |-> 3]}
    \cup (IF v.props # NoExpr THEN {[path |-> Field(p, "props"), rank |-> 2]} ELSE {})
    \cup UNION {{[path |-> Field(Item(Field(p, "directives"), d), f),
                  rank |-> 3 + 4 * (d - 1) + DirRank(f)]
                 : f \in {g \in {"name", "expr", "arg", "mods"} : v.directives[d][g] # NoExpr}}
                : d \in 1..Len(v.directives)}
IsVNode(p) == PathKind(p) = "node" /\ At(root, p).type = "VNodeCall"

\* C13: between the enter hooks and the exit hooks of a vnode its fields
\* are visited in the order tag, props (if present), children, then each
\* directive's name, expr, arg and mods (those present): when a hook is
\* called within a field, every earlier field is finished and no later field
\* has been touched, and when an exit hook of the vnode is called every
\* field is finished.  Stated of the latest hook call, in every state.
C13_VNodeOrder ==
    log # <<>> =>
        LET e == Last
        IN  /\ \A j \in 1..(Len(e.path) - 1) :
                   LET l == Prefix(e.path, j)
                   IN  IsVNode(l) =>
                           LET fs == VNodeFields(At(root, l), l)
                           IN  /\ IsOpen(l)
                               /\ \E s \in fs :
                                      /\ IsPrefix(s.path, e.path)
                                      /\ \A t \in fs :
                                             /\ t.rank < s.rank => IsClosed(t.path)
                                             /\ t.rank > s.rank => EventsAt(t.path) = <<>>
            /\ (e.shape = "vnode" /\ e.dir = "exit") =>
                   \A t \in VNodeFields(At(root, e.path), e.path) : IsClosed(t.path)

\* A finished vnode with props, a child and a directive with all four
\* expressions.
C13_Witness ==
    /\ status = "done"
    /\ \E q \in Positions :
           /\ q.kind = "node" /\ IsVNode(q.path) /\ IsClosed(q.path)
           /\ LET v == At(root, q.path)
              IN  /\ v.props # NoExpr
                  /\ Len(v.children) > 0
                  /\ Len(v.directives) > 0
                  /\ v.directives[1].mods # NoExpr

\* What a pass leaves of a child list it was handed with the shapes ts:
\* the Rewriter drops the comments and turns an AlterableSlot into a text,
\* any other pass leaves the list as it is.
LeftBy(pass, ts) ==
    IF passes[pass] = "Rewriter"
    THEN LET kept == SelectSeq(ts, LAMBDA t : t # "CommentCall")
         IN  [k \in 1..Len(kept) |-> IF kept[k] = "AlterableSlot" THEN "TextCall" ELSE kept[k]]
    ELSE ts
LastEnter(p) == EventsAt(p)[Len(passes)]
MethodOf(t) ==
    CASE t = "TextCall" -> "text" [] t = "If" -> "if" [] t = "For" -> "for"
      [] t = "VNodeCall" -> "vnode" [] t = "RenderSlotCall" -> "slot_outlet"
      [] t = "CommentCall" -> "comment" [] t = "VSlotUse" -> "v_slot"
      [] OTHER -> "none"

\* C14: the enter_children hook of a pass is handed the list as the pass
\* registered before it left it; the descent visits the elements that the
\* last enter hook left, each by the method of its shape; and the
\* exit_children hooks run when exactly those elements are finished, and are
\* handed that list.  Stated of the latest hook call, in every state.
C14_SeesMutations ==
    log # <<>> =>
        LET e == Last
            p == e.path
            up == Prefix(p, Len(p) - 1)
        IN  /\ (e.shape = "children" /\ e.dir = "enter" /\ e.pass > 1) =>
                   LET b == log[Len(log) - 1]
                   IN  /\ b.path = p /\ b.pass = e.pass - 1 /\ b.dir = "enter"
                       /\ e.seen = LeftBy(b.pass, b.seen)
            /\ (Len(p) > 1 /\ PathKind(up) = "list") =>
                   LET left == LeftBy(Len(passes), LastEnter(up).seen)
                       k == p[Len(p)][2]
                   IN  /\ k <= Len(left)
                       /\ e.shape = MethodOf(left[k])
            /\ (e.shape = "children" /\ e.dir = "exit") =>
                   LET left == LeftBy(Len(passes), LastEnter(p).seen)
                   IN  /\ e.seen = left
                       /\ \A k \in 1..Len(left) : IsClosed(Item(p, k))
                       /\ \A m \in 1..Len(log) :
                              Below(log[m].path, p) => log[m].path[Len(p) + 1][2] <= Len(left)

\* The second pass was handed a list that the first pass had shortened, and
\* the traversal went on to finish over what was left of it.
C14_Witness ==
    /\ status = "done"
    /\ passes[1] = "Rewriter"
    /\ \E m \in 2..Len(log) :
           /\ log[m].shape = "children" /\ log[m].dir = "enter" /\ log[m].pass = 2
           /\ log[m].seen # <<>>
           /\ Len(log[m].seen) < Len(log[m - 1].seen)
           /\ IsClosed(Item(log[m].path, 1))

\* A step that calls a hook, the call it logs, and whether it is the exit
\* hook of the collector for the given shape.
Called == Len(log') = Len(log) + 1
NewEvent == log'[Len(log')]
CollectorExit(shape) ==
    /\ Called
    /\ NewEvent.shape = shape
    /\ NewEvent.dir = "exit"
    /\ passes[NewEvent.pass] = "EntityCollector"
Visited == At(root, NewEvent.path)

\* C15: after a completed transform with the collector registered, the
\* helper of every Call and every Symbol in an expression slot of the tree
\* is collected; and a hook call on an expression adds that helper when it
\* is the collector's exit hook on a Call or a Symbol, and nothing otherwise.
C15_ExprHelpers ==
    /\ []((status = "done" /\ Collecting) =>
              \A e \in TreeExprs : e.kind \in {"Call", "Symbol"} => e.helper \in helper)
    /\ [][(Called /\ NewEvent.shape = "js_expr") =>
              helper' = IF CollectorExit("js_expr") /\ Visited.kind \in {"Call", "Symbol"}
                        THEN helper \cup {Visited.helper}
                        ELSE helper]_vars

\* A finished transform of a tree with a Call, a Symbol and a plain
\* expression in its slots.
C15_Witness ==
    /\ status = "done" /\ Collecting
    /\ \E a, b, c \in TreeExprs :
           /\ a.kind = "Call" /\ b.kind = "Symbol" /\ c.kind = "Simple"
           /\ {a.helper, b.helper} \subseteq helper

\* C16: the collector's exit hook on a vnode adds the creation helper that
\* get_vnode_call_helper selects, WithDirectives exactly when the vnode has
\* a runtime directive, OpenBlock exactly when is_block is set, and nothing
\* else.
C16_VNodeHelpers ==
    [][CollectorExit("vnode") =>
           helper' = helper
                     \cup {get_vnode_call_helper(Visited)}
                     \cup (IF Visited.directives # <<>> THEN {"WithDirectives"} ELSE {})
                     \cup (IF Visited.is_block THEN {"OpenBlock"} ELSE {})]_vars

\* The collector has left a block vnode with directives.
C16_Witness ==
    /\ log # <<>>
    /\ Last.shape = "vnode" /\ Last.dir = "exit"
    /\ passes[Last.pass] = "EntityCollector"
    /\ At(root, Last.path).is_block
    /\ At(root, Last.path).directives # <<>>
    /\ {"WithDirectives", "OpenBlock"} \subseteq helper

\* C17: the collector's exit hook on a VSlotUse adds WithCtx, CreateSlots
\* exactly when alterable_slots is not empty at that time, and nothing else.
C17_VSlotHelpers ==
    [][CollectorExit("v_slot") =>
           helper' = helper
                     \cup {"WithCtx"}
                     \cup (IF Visited.alterable_slots # <<>> THEN {"CreateSlots"} ELSE {})]_vars

\* The collector has left a VSlotUse that has alterable slots.
C17_Witness ==
    /\ log # <<>>
    /\ Last.shape = "v_slot" /\ Last.dir = "exit"
    /\ passes[Last.pass] = "EntityCollector"
    /\ At(root, Last.path).alterable_slots # <<>>
    /\ {"WithCtx", "CreateSlots"} \subseteq helper

\* The positions above p that have hooks: the nodes and child lists that
\* enclose p.
Enclosing(p) ==
    {Prefix(p, j) : j \in {i \in 1..(Len(p) - 1) : PathKind(Prefix(p, i)) # "none"}}
IsAlterable(p) == PathKind(p) = "node" /\ At(root, p).type = "AlterableSlot"

\* C18: an AlterableSlot that reaches transform_ir ends the traversal for
\* good.  No hook is ever called on an AlterableSlot; a transform of a tree
\* with an AlterableSlot never completes; once the traversal has aborted,
\* it stands at an AlterableSlot whose enclosing nodes and lists have had
\* their enter hooks and none of their exit hooks, and no further hook is
\* called and the state of the passes no longer changes.
C18_FatalAlterable ==
    /\ [](log # <<>> => ~IsAlterable(Last.path))
    /\ [](status = "done" => ~HasNode("AlterableSlot"))
    /\ [](status = "panicked" =>
              /\ stack # <<>>
              /\ \E q \in Positions :
                     /\ IsAlterable(q.path)
                     /\ EventsAt(q.path) = <<>>
                     /\ \A l \in Enclosing(q.path) : IsOpen(l)
                     /\ \A k \in 1..Len(stack) : stack[k].path \in Enclosing(q.path))
    /\ [][status = "panicked" =>
              (status' = "panicked" /\ log' = log /\ helper' = helper /\ stack' = stack)]_vars

\* The traversal has aborted at an AlterableSlot among the children of a
\* vnode, after the enter hooks of the vnode and of its child list.
C18_Witness ==
    /\ status = "panicked"
    /\ Len(stack) = 3
    /\ stack[2].fn = "transform_vnode"
    /\ IsOpen(stack[2].path) /\ IsOpen(stack[3].path)

IsFor(p) == PathKind(p) = "node" /\ At(root, p).type = "For"
Bindings == {"value", "key", "index"}

\* C19: no hook is ever called on the value, key or index binding of a For
\* node.  Between the enter hooks and the exit hooks of a For node the hook
\* calls fall on its source expression and within its child, the source is
\* finished before the child is touched, and when an exit hook of the For is
\* called both are finished and the source is the only expression slot of
\* the node that was visited.  Stated of the latest hook call, in every
\* state.
C19_ForVisits ==
    log # <<>> =>
        LET e == Last
            p == e.path
        IN  /\ p[Len(p)][1] \notin Bindings
            /\ \A j \in 1..(Len(p) - 1) :
                   LET l == Prefix(p, j)
                       f == p[j + 1][1]
                   IN  IsFor(l) =>
                           /\ IsOpen(l)
                           /\ f \in {"source", "child"}
                           /\ f = "child" => IsClosed(Field(l, "source"))
                           /\ f = "source" =>
                                  /\ Len(p) = j + 1
                                  /\ \A m \in 1..Len(log) :
                                         ~IsPrefix(Field(l, "child"), log[m].path)
            /\ (e.shape = "for" /\ e.dir = "exit") =>
                   /\ IsClosed(Field(p, "source"))
                   /\ IsClosed(Field(p, "child"))
                   /\ \A m \in 1..Len(log) :
                          (log[m].shape = "js_expr" /\ Len(log[m].path) = Len(p) + 1
                              /\ IsPrefix(p, log[m].path))
                              => log[m].path = Field(p, "source")

\* A finished For node that has a value and a key binding.
C19_Witness ==
    /\ status = "done"
    /\ \E q \in Positions :
           /\ q.kind = "node" /\ IsFor(q.path) /\ IsClosed(q.path)
           /\ At(root, q.path).value # NoExpr
           /\ At(root, q.path).key # NoExpr

\* The hook calls read as brackets: an enter event opens one, an exit event
\* closes the innermost open one if that is the enter event of the same
\* pass on the same position, and is a mismatch otherwise.
RECURSIVE Bracket(_, _)
Bracket(k, acc) ==
    IF k > Len(log) \/ ~acc.ok THEN acc
    ELSE LET e == log[k]
             b == [pass |-> e.pass, path |-> e.path]
             n == Len(acc.open)
         IN  IF e.dir = "enter"
             THEN Bracket(k + 1, [acc EXCEPT !.open = Append(acc.open, b)])
             ELSE IF n > 0 /\ acc.open[n] = b
             THEN Bracket(k + 1, [acc EXCEPT !.open = SubSeq(acc.open, 1, n - 1)])
             ELSE [acc EXCEPT !.ok = FALSE]
Brackets == Bracket(1, [ok |-> TRUE, open |-> <<>>])
Depth(p) == Cardinality(Enclosing(p))

\* C20: at every point of a traversal the hook events are well-bracketed:
\* every exit event closes the most recent open enter event, which is of
\* the same pass on the same position; just after the last enter hook of a
\* position the open events number the passes times the depth of the
\* position (itself included), just after its last exit hook the passes
\* times the depth of what encloses it; and a transform that has returned
\* leaves no event open.
C20_WellBracketed ==
    LET b == Brackets
        n == Len(passes)
    IN  /\ b.ok
        /\ (log # <<>> /\ Last.dir = "enter" /\ Last.pass = n) =>
               Len(b.open) = n * (Depth(Last.path) + 1)
        /\ (log # <<>> /\ Last.dir = "exit" /\ Last.pass = 1) =>
               Len(b.open) = n * Depth(Last.path)
        /\ status = "done" => b.open = <<>>

\* A transform has returned after hook calls three levels below the root
\* body.
C20_Witness ==
    /\ status = "done"
    /\ Brackets.open = <<>>
    /\ \E m \in 1..Len(log) : Depth(log[m].path) >= 3

====
